---- MODULE Spec2Model ----
(***************************************************************************)
(* Model of the Markowitz Monte Carlo portfolio optimizer                  *)
(* (src/optimizer.py) and of the dashboard pipeline that drives it         *)
(* (src/app.py, src/data_fetcher.py).                                      *)
(*                                                                         *)
(* Numbers.  The program computes in IEEE double precision.  The model     *)
(* computes exactly and keeps the three non-finite outcomes:               *)
(*   - a "rational" number is a record [k, n, d]: k = "fin" is n/d in      *)
(*     lowest terms (d > 0), k = "nan" is NaN, k = "inf" is +inf (n = 1)   *)
(*     or -inf (n = -1);                                                   *)
(*   - a "root" number is a record [k, sg, n, d]: k = "fin" is             *)
(*     sg * sqrt(n/d) with sg in {-1,0,1}; volatility and Sharpe ratio     *)
(*     are roots because of the square root in the volatility.             *)
(* Rounding error and the sign of zero are not modelled.                   *)
(*                                                                         *)
(* Indices.  Simulation indices are 0-based as in the source; asset        *)
(* positions are 1-based sequences.                                        *)
(*                                                                         *)
(* Specifications.  Spec is one run of the dashboard or one direct call    *)
(* of optimize_portfolio, SpecRerun adds further runs in the same process, *)
(* FairSpec adds the fairness of the simulation loop, SpecData is the      *)
(* functions of data_fetcher.py called directly on every small price       *)
(* history, and SpecConc is two simulations running at the same time.      *)
(***************************************************************************)
EXTENDS Integers, Sequences, FiniteSets, TLC

\* ------------------------------------------------------------------ bounds
MaxSims == 2
MaxDraw == 1
MaxTickers == 2
MaxRuns == 2
MaxRows == 3

\* --------------------------------------------------------------- constants
\* trading_days (data_fetcher.py, line 126)
TradingDays == 252

\* ------------------------------------------------------- exact arithmetic
Abs(x) == IF x < 0 THEN -x ELSE x

Sign(x) == IF x > 0 THEN 1 ELSE IF x < 0 THEN -1 ELSE 0

RECURSIVE GCD(_, _)
GCD(a, b) == IF b = 0 THEN a ELSE GCD(b, a % b)

NaN == [k |-> "nan", n |-> 0, d |-> 1]

Inf(s) == [k |-> "inf", n |-> s, d |-> 1]

Fin(a, b) ==
    LET g == GCD(Abs(a), b)
    IN  [k |-> "fin", n |-> a \div g, d |-> b \div g]

Zero == Fin(0, 1)

IsZero(x) == x.k = "fin" /\ x.n = 0

FAdd(x, y) ==
    IF x.k = "nan" \/ y.k = "nan" THEN NaN
    ELSE IF x.k = "inf" /\ y.k = "inf" THEN (IF x.n = y.n THEN x ELSE NaN)
    ELSE IF x.k = "inf" THEN x
    ELSE IF y.k = "inf" THEN y
    ELSE Fin(x.n * y.d + y.n * x.d, x.d * y.d)

FMul(x, y) ==
    IF x.k = "nan" \/ y.k = "nan" THEN NaN
    ELSE IF x.k = "inf" \/ y.k = "inf"
         THEN (IF IsZero(x) \/ IsZero(y) THEN NaN ELSE Inf(Sign(x.n) * Sign(y.n)))
    ELSE Fin(x.n * y.n, x.d * y.d)

FNeg(x) == IF x.k = "nan" THEN NaN ELSE [x EXCEPT !.n = -x.n]

FSub(x, y) == FAdd(x, FNeg(y))

FDiv(x, y) ==
    IF x.k = "nan" \/ y.k = "nan" THEN NaN
    ELSE IF x.k = "inf"
         THEN (IF y.k = "inf" THEN NaN
               ELSE Inf(Sign(x.n) * (IF y.n < 0 THEN -1 ELSE 1)))
    ELSE IF y.k = "inf" THEN Zero
    ELSE IF y.n = 0 THEN (IF x.n = 0 THEN NaN ELSE Inf(Sign(x.n)))
    ELSE Fin(x.n * y.d * Sign(y.n), x.d * Abs(y.n))

RNaN == [k |-> "nan", sg |-> 0, n |-> 0, d |-> 1]

RInf(s) == [k |-> "inf", sg |-> s, n |-> 0, d |-> 1]

RFin(s, a, b) ==
    IF a = 0 \/ s = 0 THEN [k |-> "fin", sg |-> 0, n |-> 0, d |-> 1]
    ELSE LET g == GCD(a, b)
         IN  [k |-> "fin", sg |-> s, n |-> a \div g, d |-> b \div g]

RZero == RFin(0, 0, 1)

\* np.sqrt: NaN for a negative argument (a warning, not an exception)
Sqrt(x) ==
    IF x.k = "nan" THEN RNaN
    ELSE IF x.k = "inf" THEN (IF x.n > 0 THEN RInf(1) ELSE RNaN)
    ELSE IF x.n < 0 THEN RNaN
    ELSE RFin(1, x.n, x.d)

\* mutant of DivRoot: a zero divisor is guarded and the quotient is 0
DivRoot_Guarded(x, y) ==
    IF x.k = "nan" \/ y.k = "nan" THEN RNaN
    ELSE IF x.k = "inf"
         THEN (IF y.k = "inf" THEN RNaN
               ELSE RInf(Sign(x.n) * (IF y.sg < 0 THEN -1 ELSE 1)))
    ELSE IF y.k = "inf" THEN RZero
    ELSE IF y.sg = 0 THEN RZero
    ELSE RFin(Sign(x.n) * y.sg, x.n * x.n * y.d, x.d * x.d * y.n)

\* x / y for a rational x and a root y; division by zero gives +-inf or NaN
DivRoot(x, y) ==
    IF x.k = "nan" \/ y.k = "nan" THEN RNaN
    ELSE IF x.k = "inf"
         THEN (IF y.k = "inf" THEN RNaN
               ELSE RInf(Sign(x.n) * (IF y.sg < 0 THEN -1 ELSE 1)))
    ELSE IF y.k = "inf" THEN RZero
    ELSE IF y.sg = 0 THEN (IF x.n = 0 THEN RNaN ELSE RInf(Sign(x.n)))
    ELSE RFin(Sign(x.n) * y.sg, x.n * x.n * y.d, x.d * x.d * y.n)

\* IEEE x <= y on roots: false as soon as one side is NaN
RootLE(x, y) ==
    IF x.k = "nan" \/ y.k = "nan" THEN FALSE
    ELSE IF x.k = "inf" THEN (x.sg < 0 \/ (y.k = "inf" /\ y.sg > 0))
    ELSE IF y.k = "inf" THEN y.sg > 0
    ELSE IF x.sg # y.sg THEN x.sg < y.sg
    ELSE IF x.sg = 1 THEN x.n * y.d <= y.n * x.d
    ELSE IF x.sg = -1 THEN x.n * y.d >= y.n * x.d
    ELSE TRUE

RootGE(x, y) == RootLE(y, x)

IsNaN(x) == x.k = "nan"

IsFinite(x) == x.k = "fin"

\* ------------------------------------------------------------ environment
\* Symbols the market-data provider has a price history for.
Listed == {"A", "B"}

\* One entry of the comma-separated text field, as typed.
RawEntries == {"A", " b", "Q", " "}

\* str.strip().upper() on the entries above and on its own results
StripUpper ==
    [e \in RawEntries \cup {"B", ""} |->
        CASE e = " b" -> "B"
          [] e = " "  -> ""
          [] OTHER    -> e]

\* Annualised statistics of the provider's history, per listed symbol:
\* expected return (in percent) and covariance.  "anti" is a singular
\* matrix (two perfectly anti-correlated assets), "diag" a regular one.
MuChoices ==
    { [t \in Listed |-> IF t = "A" THEN 1 ELSE 3],
      [t \in Listed |-> IF t = "A" THEN 10 ELSE 5] }

CovChoices ==
    { [p \in Listed \X Listed |-> IF p[1] = p[2] THEN 1 ELSE -1],
      [p \in Listed \X Listed |->
          IF p[1] # p[2] THEN 0 ELSE IF p[1] = "A" THEN 4 ELSE 1] }

Markets == [mu : MuChoices, cov : CovChoices]

RiskFreeRates == {2}

\* Closing prices: powers of two (see Ln), or NaN where there is no price.
PriceChoices == {1, 2}

Cells == {NaN} \cup { Fin(p, 1) : p \in PriceChoices }

\* One trading day of the provider's history: a cell per listed symbol.
HistoryRows == [Listed -> Cells]

Row(a, b) == [t \in Listed |-> IF t = "A" THEN a ELSE b]

\* Histories the dashboard runs on.  The long one stands for the years of
\* daily prices whose annualised statistics are the market's; the short
\* ones have 2, 1 and 0 days on which both symbols have a price.
LongHistory ==
    << Row(Fin(1, 1), Fin(2, 1)), Row(NaN, Fin(1, 1)),
       Row(Fin(2, 1), Fin(1, 1)), Row(Fin(1, 1), Fin(2, 1)) >>

ShortHistories ==
    { << Row(Fin(1, 1), Fin(2, 1)), Row(Fin(2, 1), Fin(1, 1)) >>,
      << Row(Fin(1, 1), Fin(2, 1)), Row(Fin(2, 1), NaN) >>,
      << Row(Fin(1, 1), NaN) >> }

ShortMarket == CHOOSE m \in Markets : m.mu["A"] = 10 /\ m.cov[<<"A", "B">>] = 0

AppWorlds ==
    { [market |-> m, history |-> LongHistory] : m \in Markets }
    \cup { [market |-> ShortMarket, history |-> h] : h \in ShortHistories }

SeqsUpTo(S, lo, hi) == UNION { [1..m -> S] : m \in lo..hi }

TickerInputs == SeqsUpTo(RawEntries, 1, MaxTickers)

TickerLists == SeqsUpTo(Listed, 0, MaxTickers)

\* Arguments of direct calls of validate_tickers and fetch_price_data, and
\* the histories the provider may hold when fetch_price_data is called.
ValidateRequests == SeqsUpTo(RawEntries, 0, MaxTickers)

FetchRequests == { <<"A">>, <<"A", "B">>, <<"B", "A">>, <<"A", "A">>, <<"A", "Q">> }

Histories == SeqsUpTo(HistoryRows, 0, MaxRows)

AssetOrder == <<"A", "B">>

None == <<>>

Some(x) == <<x>>

\* --------------------------------------------------------- src/optimizer.py
\* A raw draw of np.random.random: k stands for k/(MaxDraw+1) in [0, 1)
Uniform(k) == Fin(k, MaxDraw + 1)

RECURSIVE VecSumFrom(_, _)
VecSumFrom(v, j) ==
    IF j > Len(v) THEN Zero ELSE FAdd(v[j], VecSumFrom(v, j + 1))

VecSum(v) == VecSumFrom(v, 1)

\* weights /= weights.sum()
Normalize(raw) ==
    LET s == VecSum(raw)
    IN  [j \in 1..Len(raw) |-> FDiv(raw[j], s)]

generate_random_weights(draws) ==
    Normalize([j \in 1..Len(draws) |-> Uniform(draws[j])])

RECURSIVE DotFrom(_, _, _)
DotFrom(w, v, j) ==
    IF j > Len(w) THEN Zero
    ELSE FAdd(FMul(w[j], v[j]), DotFrom(w, v, j + 1))

\* np.dot of two vectors
Dot(w, v) == DotFrom(w, v, 1)

\* mutant of MatVec: the off-diagonal covariances are left out
MatVec_DiagonalOnly(m, w) == [j \in 1..Len(m) |-> FMul(m[j][j], w[j])]

\* np.dot(cov_matrix, weights)
MatVec(m, w) == [j \in 1..Len(m) |-> Dot(m[j], w)]

calculate_portfolio_metrics(weights, mu, cov, rf) ==
    LET portfolio_return     == Dot(weights, mu)
        portfolio_volatility == Sqrt(Dot(weights, MatVec(cov, weights)))
        sharpe_ratio         == DivRoot(FSub(portfolio_return, rf),
                                        portfolio_volatility)
    IN  [ret |-> portfolio_return, vol |-> portfolio_volatility,
         sharpe |-> sharpe_ratio]

\* mutant of MetricsCall: the weights are multiplied in place by the returns
MetricsCall_InPlace(weights, mu, cov, rf, rng) ==
    [result         |-> calculate_portfolio_metrics(weights, mu, cov, rf),
     weights        |-> [a \in 1..Len(weights) |-> FMul(weights[a], mu[a])],
     annual_returns |-> mu,
     cov_matrix     |-> cov,
     rng            |-> rng]

\* A call of calculate_portfolio_metrics with its arguments passed by
\* reference and the state of np.random: the triple it returns and the
\* arrays and the generator state as the call leaves them.  Lines 76-84
\* assign to three new locals only.
MetricsCall(weights, mu, cov, rf, rng) ==
    [result         |-> calculate_portfolio_metrics(weights, mu, cov, rf),
     weights        |-> weights,
     annual_returns |-> mu,
     cov_matrix     |-> cov,
     rng            |-> rng]

\* mutant of ArrayIndices: one entry too many
ArrayIndices_OffByOne(n) == 0..n

\* index set of np.zeros(n)
ArrayIndices(n) == 0..(n - 1)

\* mutant of RangeHas: one iteration too many
RangeHas_Inclusive(n, j) == j <= n

\* j in range(n)
RangeHas(n, j) == j < n

Size(a) == Cardinality(DOMAIN a)

\* np.argmax on a non-empty float array: the first maximum wins, and a NaN
\* is taken as the maximum as soon as it is met
RECURSIVE ArgMaxScan(_, _, _)
ArgMaxScan(a, j, best) ==
    IF j >= Size(a) \/ IsNaN(a[best]) THEN best
    ELSE IF ~RootLE(a[j], a[best]) THEN ArgMaxScan(a, j + 1, j)
    ELSE ArgMaxScan(a, j + 1, best)

\* mutant of ArgMax: a later equal value replaces the current best
RECURSIVE ArgMaxScanLast(_, _, _)
ArgMaxScanLast(a, j, best) ==
    IF j >= Size(a) \/ IsNaN(a[best]) THEN best
    ELSE IF IsNaN(a[j]) \/ RootGE(a[j], a[best]) THEN ArgMaxScanLast(a, j + 1, j)
    ELSE ArgMaxScanLast(a, j + 1, best)

ArgMax_LastWins(a) == ArgMaxScanLast(a, 1, 0)

ArgMax(a) == ArgMaxScan(a, 1, 0)

\* np.argmin, symmetric
RECURSIVE ArgMinScan(_, _, _)
ArgMinScan(a, j, best) ==
    IF j >= Size(a) \/ IsNaN(a[best]) THEN best
    ELSE IF ~RootGE(a[j], a[best]) THEN ArgMinScan(a, j + 1, j)
    ELSE ArgMinScan(a, j + 1, best)

ArgMin(a) == ArgMinScan(a, 1, 0)

\* np.argmax / np.argmin raise ValueError on an empty array
ArgRaises(a) == Size(a) = 0

MinOf(a, b) == IF a < b THEN a ELSE b

\* dict(zip(keys, vals)): zip stops at the shorter argument, and a later
\* pair replaces an earlier one with the same key
DictZip(keys, vals) ==
    LET m == MinOf(Len(keys), Len(vals))
    IN  [t \in {keys[j] : j \in 1..m} |->
            vals[CHOOSE j \in 1..m :
                    /\ keys[j] = t
                    /\ \A h \in 1..m : keys[h] = t => h <= j]]

\* mutant of Candidate: the weights are read at index 0
Candidate_WeightsOfFirst(cloud, idx, keys) ==
    [weights    |-> DictZip(keys, cloud.all_weights[0]),
     return     |-> cloud.returns[idx],
     volatility |-> cloud.volatilities[idx],
     sharpe     |-> cloud.sharpe_ratios[idx]]

\* one entry of the dictionary find_optimal_portfolios returns
Candidate(cloud, idx, keys) ==
    [weights    |-> DictZip(keys, cloud.all_weights[idx]),
     return     |-> cloud.returns[idx],
     volatility |-> cloud.volatilities[idx],
     sharpe     |-> cloud.sharpe_ratios[idx]]

\* mutant of CloudAfterSelect: NaN Sharpe ratios are zeroed in place before
\* the selection (np.nan_to_num(..., copy=False))
CloudAfterSelect_NanToNum(cloud) ==
    [cloud EXCEPT !.sharpe_ratios =
        [j \in DOMAIN cloud.sharpe_ratios |->
            IF IsNaN(cloud.sharpe_ratios[j]) THEN RZero
            ELSE cloud.sharpe_ratios[j]]]

\* The SimulationResults object as a call of find_optimal_portfolios leaves
\* it: lines 171-190 only read its arrays (np.argmax, np.argmin, indexing).
CloudAfterSelect(cloud) == cloud

\* mutant of StoreAt: the row is always stored at index 0
StoreAt_First(arr, idx, val) == [arr EXCEPT ![0] = val]

\* all_returns[i] = ..., all_weights[i, :] = weights (lines 127-130)
StoreAt(arr, idx, val) == [arr EXCEPT ![idx] = val]

\* ------------------------------------------------------ src/data_fetcher.py
\* mutant of ValidateTickers: a lookup that raises ends the loop
ValidateTickers_AbortOnRaise(ts, lookup) ==
    LET norm == [j \in 1..Len(ts) |-> StripUpper[ts[j]]]
        pos  == {j \in 1..Len(ts) : norm[j] # ""}
        RECURSIVE Pick(_, _)
        Pick(j, wantValid) ==
            IF j > Len(ts) THEN <<>>
            ELSE IF j \in pos /\ lookup[j] = "raise" THEN <<>>
            ELSE IF j \in pos /\ ((lookup[j] = "data") = wantValid)
                 THEN <<norm[j]>> \o Pick(j + 1, wantValid)
            ELSE Pick(j + 1, wantValid)
    IN  [valid |-> Pick(1, TRUE), invalid |-> Pick(1, FALSE)]

\* validate_tickers: lookup[j] is what the history lookup of entry j does
ValidateTickers(ts, lookup) ==
    LET norm == [j \in 1..Len(ts) |-> StripUpper[ts[j]]]
        pos  == {j \in 1..Len(ts) : norm[j] # ""}
        RECURSIVE Pick(_, _)
        Pick(j, wantValid) ==
            IF j > Len(ts) THEN <<>>
            ELSE IF j \in pos /\ ((lookup[j] = "data") = wantValid)
                 THEN <<norm[j]>> \o Pick(j + 1, wantValid)
            ELSE Pick(j + 1, wantValid)
    IN  [valid |-> Pick(1, TRUE), invalid |-> Pick(1, FALSE)]

LookupOutcomes(ts) ==
    { f \in [1..Len(ts) -> {"data", "empty", "raise"}] :
        \A j \in 1..Len(ts) : f[j] = "data" => StripUpper[ts[j]] \in Listed }

SeqRange(s) == { s[j] : j \in 1..Len(s) }

\* column orders of the table the provider returns for a request
ColumnOrders(ts) ==
    LET S == SeqRange(ts)
    IN  { f \in [1..Cardinality(S) -> S] :
            \A a, b \in 1..Cardinality(S) : f[a] = f[b] => a = b }

\* calculate_annual_metrics, per column of the return table
AnnualReturns(mkt, cols) == [j \in 1..Len(cols) |-> Fin(mkt.mu[cols[j]], 1)]

CovMatrix(mkt, cols) ==
    [j \in 1..Len(cols) |->
        [h \in 1..Len(cols) |-> Fin(mkt.cov[<<cols[j], cols[h]>>], 1)]]

\* A price table (pandas DataFrame): column labels and rows, each row a
\* sequence of cells in column order; a missing cell is NaN.
Table(cols, rows) == [columns |-> cols, rows |-> rows]

\* DataFrame.empty: an axis of length 0
Empty(t) == Len(t.rows) = 0 \/ Len(t.columns) = 0

RowComplete(row) == \A c \in 1..Len(row) : ~IsNaN(row[c])

\* mutant of DropNa: a row is dropped only when all its cells are missing
DropNa_HowAll(t) ==
    LET SomeCell(row) == \E c \in 1..Len(row) : ~IsNaN(row[c])
    IN  [t EXCEPT !.rows = SelectSeq(t.rows, SomeCell)]

\* DataFrame.dropna(): every row with a missing cell is dropped
DropNa(t) == [t EXCEPT !.rows = SelectSeq(t.rows, RowComplete)]

\* yf.download(tickers, ...): the closing prices the provider has for the
\* requested symbols, one column per distinct symbol (NaN where it has no
\* price, and for a symbol it does not list), or no data at all
Download(history, ts) ==
    { Table(cols, [t \in 1..Len(history) |->
                     [c \in 1..Len(cols) |->
                        IF cols[c] \in Listed THEN history[t][cols[c]]
                        ELSE NaN]]) : cols \in ColumnOrders(ts) }
    \cup { Table(<<>>, <<>>) }

\* fetch_price_data(tickers, years) on the downloaded data
FetchPriceData(ts, data) ==
    IF Empty(data)
    THEN [raised |-> "ValueError", prices |-> None]
    ELSE LET close  == IF Len(ts) = 1 THEN [data EXCEPT !.columns = ts]
                       ELSE data
             prices == DropNa(close)
         IN  IF Empty(prices)
             THEN [raised |-> "ValueError", prices |-> None]
             ELSE [raised |-> "none", prices |-> Some(prices)]

\* Prices are powers of two and logarithms are kept in units of ln 2, so
\* that np.log is exact on every ratio of two prices.
RECURSIVE Log2(_)
Log2(m) == IF m = 1 THEN 0 ELSE 1 + Log2(m \div 2)

\* np.log: NaN stays NaN, log(0) = -inf, NaN below 0 (warnings)
Ln(x) ==
    IF x.k = "nan" THEN NaN
    ELSE IF x.k = "inf" THEN (IF x.n > 0 THEN Inf(1) ELSE NaN)
    ELSE IF x.n < 0 THEN NaN
    ELSE IF x.n = 0 THEN Inf(-1)
    ELSE Fin(Log2(x.n) - Log2(x.d), 1)

\* mutant of Shift: prices.shift(-1), the next row instead of the previous
Shift_Backwards(t) ==
    [t EXCEPT !.rows =
        [r \in 1..Len(t.rows) |->
            IF r = Len(t.rows) THEN [c \in 1..Len(t.columns) |-> NaN]
            ELSE t.rows[r + 1]]]

\* prices.shift(1): every row moves down by one, the first row is NaN
Shift(t) ==
    [t EXCEPT !.rows =
        [r \in 1..Len(t.rows) |->
            IF r = 1 THEN [c \in 1..Len(t.columns) |-> NaN]
            ELSE t.rows[r - 1]]]

\* calculate_returns: np.log(prices / prices.shift(1)).dropna()
CalculateReturns(prices) ==
    LET prev == Shift(prices)
        logs == [r \in 1..Len(prices.rows) |->
                    [c \in 1..Len(prices.columns) |->
                        Ln(FDiv(prices.rows[r][c], prev.rows[r][c]))]]
    IN  DropNa(Table(prices.columns, logs))

RECURSIVE SumTo(_, _)
SumTo(f, n) == IF n = 0 THEN Zero ELSE FAdd(SumTo(f, n - 1), f[n])

\* DataFrame.mean(): NaN for a column without rows
Mean(t, c) ==
    FDiv(SumTo([r \in 1..Len(t.rows) |-> t.rows[r][c]], Len(t.rows)),
         Fin(Len(t.rows), 1))

\* DataFrame.cov() (np.cov, ddof = 1): the sum of the products of the
\* deviations times 1 / (rows - 1), and 1 / 0 when there are fewer than 2 rows
Cov(t, a, b) ==
    LET n    == Len(t.rows)
        fact == IF n - 1 <= 0 THEN 0 ELSE n - 1
        dev  == [r \in 1..n |->
                    FMul(FSub(t.rows[r][a], Mean(t, a)),
                         FSub(t.rows[r][b], Mean(t, b)))]
    IN  FMul(SumTo(dev, n), FDiv(Fin(1, 1), Fin(fact, 1)))

\* calculate_annual_metrics(returns), computed from the rows
CalculateAnnualMetrics(rets) ==
    LET C == 1..Len(rets.columns)
    IN  [annual_returns |->
            [c \in C |-> FMul(Mean(rets, c), Fin(TradingDays, 1))],
         cov_matrix |->
            [a \in C |-> [b \in C |->
                FMul(Cov(rets, a, b), Fin(TradingDays, 1))]]]

\* calculate_annual_metrics(returns) in the dashboard: the statistics of a
\* history of 2 or more return rows are those of the market; with fewer
\* rows the covariance is NaN, and without rows the mean is NaN as well
AnnualReturnsOf(mkt, rets) ==
    IF Len(rets.rows) = 0
    THEN [j \in 1..Len(rets.columns) |-> NaN]
    ELSE AnnualReturns(mkt, rets.columns)

CovMatrixOf(mkt, rets) ==
    IF Len(rets.rows) < 2
    THEN [j \in 1..Len(rets.columns) |->
            [h \in 1..Len(rets.columns) |-> NaN]]
    ELSE CovMatrix(mkt, rets.columns)

\* ------------------------------------------------------------ src/app.py
\* the functions whose invocations a run of the pipeline counts
Stages == {"validate_tickers", "fetch_price_data", "calculate_returns",
           "calculate_annual_metrics", "optimize_portfolio"}

NoCalls == [s \in Stages |-> 0]

Called(c, S) == [s \in Stages |-> IF s \in S THEN c[s] + 1 ELSE c[s]]

\* mutant of TooFew: one entry is accepted
TooFew_OneAccepted(list) == Len(list) < 1

\* len(tickers) < 2 (line 531) and len(valid_tickers) < 2 (line 548)
TooFew(list) == Len(list) < 2

\* [t.strip().upper() for t in tickers_input.split(',') if t.strip()]
ParseTickers(input) ==
    SelectSeq([j \in 1..Len(input) |-> StripUpper[input[j]]],
              LAMBDA t : t # "")

\* -------------------------------------------------------------------- state
VARIABLES
    mode,               \* "app": a dashboard run; "api": a direct call of optimize_portfolio
    pc,                 \* position of the run
    tickers_input,      \* app: the entries of the text field
    market,             \* the provider's data
    n_simulations,
    risk_free_rate,
    valid_tickers,      \* app: results of validate_tickers
    invalid_tickers,
    columns,            \* app: column order of the price table
    annual_returns,     \* arguments of optimize_portfolio
    cov_matrix,
    tickers,
    i,                  \* loop index of run_monte_carlo_simulation
    all_returns,        \* its four arrays
    all_volatilities,
    all_sharpe,
    all_weights,
    simulation_results, \* the SimulationResults it returned, or None
    max_sharpe_idx,     \* locals of find_optimal_portfolios
    min_vol_idx,
    optimal_portfolios, \* the dictionary it returned, or None
    raised,             \* the exception in flight or caught, "none" if none
    shown,              \* app: the box displayed at the end of the run
    rng_pos,            \* global np.random state: draws consumed so far
    gen_calls,          \* calls of generate_random_weights in this run
    metrics_calls,      \* calls of calculate_portfolio_metrics in this run
    runs,               \* app: script runs started in this process
    first_run,          \* app: inputs and cloud of the first run, or None
    calls,              \* invocations of each stage in this run
    provider,           \* the price history the provider holds
    lookups,            \* direct call: what each history lookup did
    prices,             \* the table fetch_price_data returned, or None
    returns,            \* the table calculate_returns returned, or None
    requests,           \* concurrent requests: the loop state of each
    tape                \* concurrent requests: what np.random returned so far

vars ==
    << mode, pc, tickers_input, market, n_simulations, risk_free_rate,
       valid_tickers, invalid_tickers, columns, annual_returns, cov_matrix,
       tickers, i, all_returns, all_volatilities, all_sharpe, all_weights,
       simulation_results, max_sharpe_idx, min_vol_idx, optimal_portfolios,
       raised, shown, rng_pos, gen_calls, metrics_calls, runs, first_run,
       calls, provider, lookups, prices, returns, requests, tape >>

inputVars == << mode, tickers_input, market, n_simulations, risk_free_rate,
               provider >>

tableVars == << lookups, prices, returns >>

concVars == << requests, tape >>

appVars == << valid_tickers, invalid_tickers, columns >>

argVars == << annual_returns, cov_matrix, tickers >>

loopVars == << i, all_returns, all_volatilities, all_sharpe, all_weights,
               rng_pos, gen_calls, metrics_calls >>

selectVars == << max_sharpe_idx, min_vol_idx, optimal_portfolios >>

runVars == << runs, first_run >>

n_assets == Len(annual_returns)

\* state of a run that has not reached the optimizer
FreshRun ==
    /\ valid_tickers = <<>> /\ invalid_tickers = <<>> /\ columns = <<>>
    /\ i = 0
    /\ all_returns = <<>> /\ all_volatilities = <<>>
    /\ all_sharpe = <<>> /\ all_weights = <<>>
    /\ simulation_results = None
    /\ max_sharpe_idx = 0 /\ min_vol_idx = 0
    /\ optimal_portfolios = None
    /\ raised = "none" /\ shown = "none"
    /\ gen_calls = 0 /\ metrics_calls = 0
    /\ lookups = <<>> /\ prices = None /\ returns = None
    /\ requests = <<>> /\ tape = <<>>

InitApp ==
    /\ mode = "app" /\ pc = "app_parse"
    /\ \E w \in AppWorlds : market = w.market /\ provider = w.history
    /\ tickers_input \in TickerInputs
    /\ n_simulations \in 1..MaxSims
    /\ annual_returns = <<>> /\ cov_matrix = <<>> /\ tickers = <<>>
    /\ calls = NoCalls

InitApi ==
    /\ mode = "api" /\ pc = "simulate"
    /\ market \in Markets /\ provider = <<>>
    /\ tickers_input = <<>>
    /\ n_simulations \in 0..MaxSims
    /\ \E na \in 0..Len(AssetOrder) :
          /\ annual_returns = AnnualReturns(market, SubSeq(AssetOrder, 1, na))
          /\ cov_matrix = CovMatrix(market, SubSeq(AssetOrder, 1, na))
    /\ tickers \in TickerLists
    /\ calls = Called(NoCalls, {"optimize_portfolio"})

Init ==
    /\ risk_free_rate \in {Fin(r, 1) : r \in RiskFreeRates}
    /\ rng_pos = 0 /\ runs = 1 /\ first_run = None
    /\ FreshRun
    /\ (InitApp \/ InitApi)

\* ------------------------------------------------------------ src/app.py
\* lines 529-536: parse the text field, reject fewer than 2 entries
AppParse ==
    /\ pc = "app_parse"
    /\ tickers' = ParseTickers(tickers_input)
    /\ IF TooFew(tickers')
          THEN pc' = "app_end" /\ shown' = "min_assets"
          ELSE pc' = "app_validate" /\ shown' = shown
    /\ UNCHANGED << inputVars, appVars, annual_returns, cov_matrix, loopVars,
                    simulation_results, selectVars, raised, runVars, calls,
                    tableVars,
                    concVars >>

\* lines 538-553: validate, reject fewer than 2 valid tickers
AppValidate ==
    /\ pc = "app_validate"
    /\ \E lookup \in LookupOutcomes(tickers) :
          LET r == ValidateTickers(tickers, lookup)
          IN  /\ valid_tickers' = r.valid
              /\ invalid_tickers' = r.invalid
              /\ IF TooFew(r.valid)
                    THEN pc' = "app_end" /\ shown' = "insufficient_valid"
                    ELSE pc' = "app_fetch" /\ shown' = shown
    /\ calls' = Called(calls, {"validate_tickers"})
    /\ UNCHANGED << inputVars, columns, argVars, loopVars,
                    simulation_results, selectVars, raised, runVars,
                    tableVars,
                    concVars >>

\* line 557: fetch_price_data(valid_tickers, years); it raises ValueError
\* when the provider has no data or no row survives the cleaning
AppFetch ==
    /\ pc = "app_fetch"
    /\ \E data \in Download(provider, valid_tickers) :
          LET r == FetchPriceData(valid_tickers, data)
          IN  IF r.raised # "none"
              THEN /\ raised' = r.raised
                   /\ pc' = "app_except"
                   /\ UNCHANGED << columns, prices >>
              ELSE /\ prices' = r.prices
                   /\ columns' = r.prices[1].columns
                   /\ pc' = "app_annualize"
                   /\ raised' = raised
    /\ calls' = Called(calls, {"fetch_price_data"})
    /\ UNCHANGED << inputVars, valid_tickers, invalid_tickers, argVars,
                    loopVars, simulation_results, selectVars, shown, runVars,
                    lookups, returns,
                    concVars >>

\* lines 558-568: calculate_returns, calculate_annual_metrics, and the
\* call optimize_portfolio(annual_returns, cov_matrix, valid_tickers, ...)
AppAnnualize ==
    /\ pc = "app_annualize"
    /\ returns' = Some(CalculateReturns(prices[1]))
    /\ annual_returns' = AnnualReturnsOf(market, returns'[1])
    /\ cov_matrix' = CovMatrixOf(market, returns'[1])
    /\ tickers' = valid_tickers
    /\ pc' = "simulate"
    /\ calls' = Called(calls, {"calculate_returns", "calculate_annual_metrics",
                               "optimize_portfolio"})
    /\ UNCHANGED << inputVars, appVars, loopVars, simulation_results,
                    selectVars, raised, shown, runVars, lookups, prices,
                    concVars >>

\* lines 570-642: success box and the portfolio display
AppDisplay ==
    /\ pc = "returned" /\ mode = "app"
    /\ shown' = "success"
    /\ pc' = "app_end"
    /\ UNCHANGED << inputVars, appVars, argVars, loopVars,
                    simulation_results, selectVars, raised, runVars, calls,
                    tableVars,
                    concVars >>

\* mutant of OnException: the handler starts the fetch again
OnException_Retry(e) == [shown |-> "none", pc |-> "app_fetch"]

\* the except block of lines 644-649: the alert box with the message of
\* the exception; the script then ends
OnException(e) == [shown |-> "system_error", pc |-> "app_end"]

\* lines 644-649: except Exception -> alert box
AppExcept ==
    /\ pc \in {"app_except", "raised"} /\ mode = "app"
    /\ shown' = OnException(raised).shown
    /\ pc' = OnException(raised).pc
    /\ UNCHANGED << inputVars, appVars, argVars, loopVars,
                    simulation_results, selectVars, raised, runVars, calls,
                    tableVars,
                    concVars >>

\* --------------------------------------------------------- src/optimizer.py
\* run_monte_carlo_simulation, lines 112-118: allocate the arrays
SimStart ==
    /\ pc = "simulate"
    /\ i' = 0
    /\ all_returns' = [j \in ArrayIndices(n_simulations) |-> Zero]
    /\ all_volatilities' = [j \in ArrayIndices(n_simulations) |-> RZero]
    /\ all_sharpe' = [j \in ArrayIndices(n_simulations) |-> RZero]
    /\ all_weights' = [j \in ArrayIndices(n_simulations) |->
                          [a \in 1..n_assets |-> Zero]]
    /\ pc' = "sim_loop"
    /\ UNCHANGED << inputVars, appVars, argVars, rng_pos, gen_calls,
                    metrics_calls, simulation_results, selectVars, raised,
                    shown, runVars, calls,
                    tableVars,
                    concVars >>

\* lines 121-130: one iteration of the loop
SimDraw ==
    /\ pc = "sim_loop"
    /\ RangeHas(n_simulations, i)
    /\ \E draws \in [1..n_assets -> 0..MaxDraw] :
       \E weights \in {generate_random_weights(draws)} :
       \E call \in {MetricsCall(weights, annual_returns, cov_matrix,
                                risk_free_rate, rng_pos + n_assets)} :
          /\ all_returns' = StoreAt(all_returns, i, call.result.ret)
          /\ all_volatilities' = StoreAt(all_volatilities, i, call.result.vol)
          /\ all_sharpe' = StoreAt(all_sharpe, i, call.result.sharpe)
          /\ all_weights' = StoreAt(all_weights, i, call.weights)
          /\ annual_returns' = call.annual_returns
          /\ cov_matrix' = call.cov_matrix
          /\ rng_pos' = call.rng
    /\ gen_calls' = gen_calls + 1
    /\ metrics_calls' = metrics_calls + 1
    /\ i' = i + 1
    /\ UNCHANGED << inputVars, appVars, tickers, pc, simulation_results,
                    selectVars, raised, shown, runVars, calls,
                    tableVars,
                    concVars >>

\* lines 132-137: the loop is over, return the SimulationResults
SimReturn ==
    /\ pc = "sim_loop"
    /\ ~RangeHas(n_simulations, i)
    /\ simulation_results' =
          Some([returns       |-> all_returns,
                volatilities  |-> all_volatilities,
                sharpe_ratios |-> all_sharpe,
                all_weights   |-> all_weights])
    /\ pc' = "select"
    /\ UNCHANGED << inputVars, appVars, argVars, loopVars, selectVars,
                    raised, shown, runVars, calls,
                    tableVars,
                    concVars >>

\* find_optimal_portfolios, lines 168-192, and the return of
\* optimize_portfolio, line 240
FindOptimal ==
    /\ pc = "select"
    /\ LET cloud == simulation_results[1]
       IN  IF ArgRaises(cloud.sharpe_ratios)
           THEN /\ raised' = "ValueError"
                /\ pc' = "raised"
                /\ UNCHANGED selectVars
           ELSE LET ms == ArgMax(cloud.sharpe_ratios)
                    mv == ArgMin(cloud.volatilities)
                IN  /\ max_sharpe_idx' = ms
                    /\ min_vol_idx' = mv
                    /\ optimal_portfolios' =
                          Some([max_sharpe     |-> Candidate(cloud, ms, tickers),
                                min_volatility |-> Candidate(cloud, mv, tickers)])
                    /\ pc' = "returned"
                    /\ raised' = raised
    /\ simulation_results' = Some(CloudAfterSelect(simulation_results[1]))
    /\ UNCHANGED << inputVars, appVars, argVars, loopVars,
                    shown, runVars, calls,
                    tableVars,
                    concVars >>

\* Streamlit runs the script again, in the same process, when the button is
\* pressed again with the same inputs (line 528)
Rerun ==
    /\ pc = "app_end" /\ mode = "app"
    /\ runs < MaxRuns
    /\ runs' = runs + 1
    /\ first_run' =
          IF runs = 1 /\ simulation_results # None
          THEN Some([annual_returns |-> annual_returns,
                     cov_matrix     |-> cov_matrix,
                     cloud          |-> simulation_results[1]])
          ELSE first_run
    /\ pc' = "app_parse"
    /\ valid_tickers' = <<>> /\ invalid_tickers' = <<>> /\ columns' = <<>>
    /\ annual_returns' = <<>> /\ cov_matrix' = <<>> /\ tickers' = <<>>
    /\ i' = 0
    /\ all_returns' = <<>> /\ all_volatilities' = <<>>
    /\ all_sharpe' = <<>> /\ all_weights' = <<>>
    /\ simulation_results' = None
    /\ max_sharpe_idx' = 0 /\ min_vol_idx' = 0
    /\ optimal_portfolios' = None
    /\ raised' = "none" /\ shown' = "none"
    /\ gen_calls' = 0 /\ metrics_calls' = 0
    /\ calls' = NoCalls
    /\ lookups' = <<>> /\ prices' = None /\ returns' = None
    /\ UNCHANGED << inputVars, rng_pos, concVars >>

Next ==
    \/ AppParse
    \/ AppValidate
    \/ AppFetch
    \/ AppAnnualize
    \/ AppDisplay
    \/ AppExcept
    \/ SimStart
    \/ SimDraw
    \/ SimReturn
    \/ FindOptimal

Spec == Init /\ [][Next]_vars

NextRerun == Next \/ Rerun

SpecRerun == Init /\ [][NextRerun]_vars

\* The optimizer is synchronous code that runs to completion: each of its
\* steps is taken once it is enabled.  The fairness of SimDraw is stated
\* with ENABLED <<SimDraw>>_vars written out (SimDraw always increments i).
SimDrawEnabled == pc = "sim_loop" /\ RangeHas(n_simulations, i)

FairSpec ==
    /\ Spec
    /\ WF_vars(SimStart)
    /\ WF_vars(SimReturn)
    /\ ([]<>(~SimDrawEnabled) \/ []<><<SimDraw>>_vars)

\* ---------------------------------------- src/data_fetcher.py, called directly
\* A caller other than the dashboard calls validate_tickers on a list of
\* its own, or fetch_price_data, calculate_returns and
\* calculate_annual_metrics in turn.
InitData ==
    /\ mode = "data"
    /\ \/ /\ pc = "data_validate"
          /\ tickers \in ValidateRequests
          /\ provider = <<>>
       \/ /\ pc = "data_fetch"
          /\ tickers \in FetchRequests
          /\ provider \in Histories
    /\ tickers_input = <<>> /\ market = ShortMarket
    /\ n_simulations = 0 /\ risk_free_rate = Zero
    /\ annual_returns = <<>> /\ cov_matrix = <<>>
    /\ rng_pos = 0 /\ runs = 1 /\ first_run = None
    /\ calls = NoCalls
    /\ FreshRun

\* validate_tickers(tickers), lines 29-48
DataValidate ==
    /\ pc = "data_validate"
    /\ \E lookup \in LookupOutcomes(tickers) :
          LET r == ValidateTickers(tickers, lookup)
          IN  /\ valid_tickers' = r.valid
              /\ invalid_tickers' = r.invalid
              /\ lookups' = lookup
    /\ calls' = Called(calls, {"validate_tickers"})
    /\ pc' = "data_end"
    /\ UNCHANGED << inputVars, columns, argVars, loopVars, simulation_results,
                    selectVars, raised, shown, runVars, prices, returns,
                    concVars >>

\* fetch_price_data(tickers), lines 75-103
DataFetch ==
    /\ pc = "data_fetch"
    /\ \E data \in Download(provider, tickers) :
          LET r == FetchPriceData(tickers, data)
          IN  IF r.raised # "none"
              THEN /\ raised' = r.raised
                   /\ pc' = "data_end"
                   /\ UNCHANGED << columns, prices >>
              ELSE /\ prices' = r.prices
                   /\ columns' = r.prices[1].columns
                   /\ pc' = "data_returns"
                   /\ raised' = raised
    /\ calls' = Called(calls, {"fetch_price_data"})
    /\ UNCHANGED << inputVars, valid_tickers, invalid_tickers, argVars,
                    loopVars, simulation_results, selectVars, shown, runVars,
                    lookups, returns,
                    concVars >>

\* calculate_returns(prices), line 120
DataReturns ==
    /\ pc = "data_returns"
    /\ returns' = Some(CalculateReturns(prices[1]))
    /\ calls' = Called(calls, {"calculate_returns"})
    /\ pc' = "data_annualize"
    /\ UNCHANGED << inputVars, appVars, argVars, loopVars, simulation_results,
                    selectVars, raised, shown, runVars, lookups, prices,
                    concVars >>

\* calculate_annual_metrics(returns), lines 144-152
DataAnnualize ==
    /\ pc = "data_annualize"
    /\ LET m == CalculateAnnualMetrics(returns[1])
       IN  /\ annual_returns' = m.annual_returns
           /\ cov_matrix' = m.cov_matrix
    /\ calls' = Called(calls, {"calculate_annual_metrics"})
    /\ pc' = "data_end"
    /\ UNCHANGED << inputVars, appVars, tickers, loopVars, simulation_results,
                    selectVars, raised, shown, runVars, tableVars,
                    concVars >>

NextData ==
    \/ DataValidate
    \/ DataFetch
    \/ DataReturns
    \/ DataAnnualize

SpecData == InitData /\ [][NextData]_vars

\* ------------------------------------- src/optimizer.py, concurrent requests
\* Two sessions of the dashboard run run_monte_carlo_simulation at the same
\* time in one process, on the same statistics.  np.random is the
\* process-wide generator: a call of np.random.random(n_assets) (line 45)
\* is atomic and returns the next vector of the generator's sequence, which
\* the tape records.
Requests == {1, 2}

ConcAssets == <<"A", "B">>

\* vectors np.random.random(2) may return
ConcDraws == { d \in [1..Len(ConcAssets) -> 0..MaxDraw] : d[2] = MaxDraw }

InitConc ==
    /\ mode = "conc" /\ pc = "sim_loop"
    /\ market \in Markets /\ provider = <<>>
    /\ tickers_input = <<>> /\ tickers = ConcAssets
    /\ n_simulations \in 1..MaxSims
    /\ risk_free_rate \in {Fin(r, 1) : r \in RiskFreeRates}
    /\ annual_returns = AnnualReturns(market, ConcAssets)
    /\ cov_matrix = CovMatrix(market, ConcAssets)
    /\ rng_pos = 0 /\ runs = 1 /\ first_run = None
    /\ calls = NoCalls
    /\ valid_tickers = <<>> /\ invalid_tickers = <<>> /\ columns = <<>>
    /\ i = 0
    /\ all_returns = <<>> /\ all_volatilities = <<>>
    /\ all_sharpe = <<>> /\ all_weights = <<>>
    /\ simulation_results = None
    /\ max_sharpe_idx = 0 /\ min_vol_idx = 0
    /\ optimal_portfolios = None
    /\ raised = "none" /\ shown = "none"
    /\ gen_calls = 0 /\ metrics_calls = 0
    /\ lookups = <<>> /\ prices = None /\ returns = None
    /\ tape = <<>>
    /\ requests =
          [r \in Requests |->
              [i                |-> 0,
               all_returns      |-> [j \in ArrayIndices(n_simulations) |-> Zero],
               all_volatilities |-> [j \in ArrayIndices(n_simulations) |-> RZero],
               all_sharpe       |-> [j \in ArrayIndices(n_simulations) |-> RZero],
               all_weights      |-> [j \in ArrayIndices(n_simulations) |->
                                        [a \in 1..n_assets |-> Zero]]]]

\* lines 121-130: one iteration of the loop of request r
ConcDraw(r) ==
    /\ mode = "conc"
    /\ RangeHas(n_simulations, requests[r].i)
    /\ \E draws \in ConcDraws :
       \E weights \in {generate_random_weights(draws)} :
       \E m \in {calculate_portfolio_metrics(weights, annual_returns,
                                             cov_matrix, risk_free_rate)} :
          LET q == requests[r]
          IN  /\ requests' =
                    [requests EXCEPT ![r] =
                        [i                |-> q.i + 1,
                         all_returns      |-> StoreAt(q.all_returns, q.i, m.ret),
                         all_volatilities |-> StoreAt(q.all_volatilities, q.i, m.vol),
                         all_sharpe       |-> StoreAt(q.all_sharpe, q.i, m.sharpe),
                         all_weights      |-> StoreAt(q.all_weights, q.i, weights)]]
              /\ tape' = Append(tape, draws)
    /\ rng_pos' = rng_pos + n_assets
    /\ UNCHANGED << inputVars, appVars, argVars, pc, i, all_returns,
                    all_volatilities, all_sharpe, all_weights, gen_calls,
                    metrics_calls, simulation_results, selectVars, raised,
                    shown, runVars, calls, tableVars >>

NextConc ==
    \/ ConcDraw(1)
    \/ ConcDraw(2)

SpecConc == InitConc /\ [][NextConc]_vars

\* ------------------------------------------------------------- properties
HasResult == optimal_portfolios # None

Res == optimal_portfolios[1]

Cloud == simulation_results[1]

PortfolioNames == {"max_sharpe", "min_volatility"}

SelectedIdx(name) == IF name = "max_sharpe" THEN max_sharpe_idx ELSE min_vol_idx

\* find_optimal_portfolios has been called and has returned or raised
SelectDone == simulation_results # None /\ pc \in {"returned", "raised", "app_end"}

\* the tickers list names each asset once, in some order
ProperOrdering == 
    /\ Len(tickers) = n_assets
    /\ \A a, b \in 1..Len(tickers) : tickers[a] = tickers[b] => a = b

C2_FiniteMaxSharpe ==
    (HasResult /\ \E j \in DOMAIN Cloud.sharpe_ratios :
                      IsFinite(Cloud.sharpe_ratios[j]))
        => IsFinite(Res.max_sharpe.sharpe)

\* C3: the max_sharpe result's Sharpe is >= every other finite Sharpe of the
\* cloud, and the min_volatility result's volatility is <= every other
\* volatility of the cloud.
C3_Extrema ==
    HasResult =>
        /\ \A j \in DOMAIN Cloud.sharpe_ratios :
              (j # max_sharpe_idx /\ IsFinite(Cloud.sharpe_ratios[j]))
                  => RootGE(Res.max_sharpe.sharpe, Cloud.sharpe_ratios[j])
        /\ \A j \in DOMAIN Cloud.volatilities :
              j # min_vol_idx
                  => RootLE(Res.min_volatility.volatility, Cloud.volatilities[j])

\* C4: among the candidates that carry the selected value, the lowest
\* simulation index is the one selected, for max_sharpe and for
\* min_volatility; and when the array holds no NaN the selected value is
\* the maximal Sharpe (the minimal volatility).
C4_LowestIndexWins ==
    HasResult =>
        /\ \A j \in DOMAIN Cloud.sharpe_ratios :
              Cloud.sharpe_ratios[j] = Cloud.sharpe_ratios[max_sharpe_idx]
                  => max_sharpe_idx <= j
        /\ \A j \in DOMAIN Cloud.volatilities :
              Cloud.volatilities[j] = Cloud.volatilities[min_vol_idx]
                  => min_vol_idx <= j
        /\ (\A j \in DOMAIN Cloud.sharpe_ratios : ~IsNaN(Cloud.sharpe_ratios[j]))
              => \A j \in DOMAIN Cloud.sharpe_ratios :
                    RootLE(Cloud.sharpe_ratios[j], Cloud.sharpe_ratios[max_sharpe_idx])
        /\ (\A j \in DOMAIN Cloud.volatilities : ~IsNaN(Cloud.volatilities[j]))
              => \A j \in DOMAIN Cloud.volatilities :
                    RootGE(Cloud.volatilities[j], Cloud.volatilities[min_vol_idx])

C4_Witness ==
    /\ HasResult /\ Size(Cloud.sharpe_ratios) = 2
    /\ IsFinite(Cloud.sharpe_ratios[0])
    /\ Cloud.sharpe_ratios[0] = Cloud.sharpe_ratios[1]
    /\ Cloud.volatilities[0] = Cloud.volatilities[1]
    /\ max_sharpe_idx = 0 /\ min_vol_idx = 0

\* C5: every weight vector the simulation has stored has non-negative
\* entries that sum to 1.
C5_WeightsOnSimplex ==
    \A j \in DOMAIN all_weights :
        j < i =>
            /\ \A a \in 1..Len(all_weights[j]) :
                  IsFinite(all_weights[j][a]) /\ all_weights[j][a].n >= 0
            /\ VecSum(all_weights[j]) = Fin(1, 1)

\* C6: a second run with the same annual returns, covariance, n_simulations
\* and risk-free rate produces the cloud of the first run.
C6_SameCloud ==
    ( /\ runs > 1 /\ first_run # None /\ simulation_results # None
      /\ first_run[1].annual_returns = annual_returns
      /\ first_run[1].cov_matrix = cov_matrix )
        => Cloud = first_run[1].cloud

\* C7: the simulation calls generate_random_weights and
\* calculate_portfolio_metrics once per iteration, n_simulations times in
\* all, then returns four arrays of n_simulations entries; a started
\* simulation always returns.
C7_Counts ==
    /\ pc = "sim_loop" =>
          /\ i <= n_simulations
          /\ gen_calls = i /\ metrics_calls = i
    /\ simulation_results # None =>
          /\ gen_calls = n_simulations /\ metrics_calls = n_simulations
          /\ Size(Cloud.returns) = n_simulations
          /\ Size(Cloud.volatilities) = n_simulations
          /\ Size(Cloud.sharpe_ratios) = n_simulations
          /\ Size(Cloud.all_weights) = n_simulations

C7_ExactDraws ==
    /\ []C7_Counts
    /\ (pc = "simulate") ~> (simulation_results # None)

C7_Witness ==
    /\ simulation_results # None /\ n_simulations = MaxSims
    /\ gen_calls = MaxSims

\* C8: when the tickers list names each asset once, each optimal portfolio
\* is the candidate of one cloud index, and the metrics recomputed from the
\* weights it reports (read back in ticker order) with the original mu,
\* Sigma and risk-free rate are the return, volatility and Sharpe it reports.
C8_RoundTrip ==
    (HasResult /\ ProperOrdering) =>
        \A name \in PortfolioNames :
            LET p == Res[name]
                w == [a \in 1..n_assets |-> p.weights[tickers[a]]]
                m == calculate_portfolio_metrics(w, annual_returns,
                                                 cov_matrix, risk_free_rate)
            IN  /\ m.ret = p.return
                /\ m.vol = p.volatility
                /\ m.sharpe = p.sharpe
                /\ \E j \in DOMAIN Cloud.all_weights :
                      /\ w = Cloud.all_weights[j]
                      /\ p.return = Cloud.returns[j]
                      /\ p.volatility = Cloud.volatilities[j]
                      /\ p.sharpe = Cloud.sharpe_ratios[j]

C8_Witness ==
    /\ HasResult /\ ProperOrdering /\ n_assets = 2
    /\ max_sharpe_idx = 1 /\ min_vol_idx = 0
    /\ Cloud.all_weights[0] # Cloud.all_weights[1]

\* C9: in a dashboard run, the weight each optimal portfolio reports for a
\* ticker is the weight at that ticker's position in the annual-returns
\* vector and covariance matrix.
C9_NamedWeights ==
    (mode = "app" /\ HasResult) =>
        \A name \in PortfolioNames : \A a \in 1..n_assets :
            /\ columns[a] \in DOMAIN Res[name].weights
            /\ Res[name].weights[columns[a]]
                  = Cloud.all_weights[SelectedIdx(name)][a]

\* C10: with n_simulations = 1, optimize_portfolio returns a cloud of one
\* entry and both optimal portfolios are the candidate of index 0.
C10_SingleCandidate ==
    /\ n_simulations = 1 => pc # "raised"
    /\ (n_simulations = 1 /\ pc = "returned") =>
        /\ HasResult
        /\ Size(Cloud.returns) = 1 /\ Size(Cloud.volatilities) = 1
        /\ Size(Cloud.sharpe_ratios) = 1 /\ Size(Cloud.all_weights) = 1
        /\ \A name \in PortfolioNames :
              /\ Res[name].weights = DictZip(tickers, Cloud.all_weights[0])
              /\ Res[name].return = Cloud.returns[0]
              /\ Res[name].volatility = Cloud.volatilities[0]
              /\ Res[name].sharpe = Cloud.sharpe_ratios[0]

C10_Witness ==
    /\ n_simulations = 1 /\ pc = "returned" /\ HasResult
    /\ n_assets = 2 /\ IsFinite(Cloud.sharpe_ratios[0])

\* the four stages that compute statistics
Statistics == {"fetch_price_data", "calculate_returns",
               "calculate_annual_metrics", "optimize_portfolio"}

HasPrice(r, t) == t \in Listed /\ ~IsNaN(provider[r][t])

\* C12: fetch_price_data either raises ValueError and returns nothing, or
\* returns a table with at least one row in which every row has a price for
\* every requested asset; it raises whenever the provider has no day on
\* which all requested assets have a price.
C12_NoPartialTable ==
    (mode = "data" /\ calls["fetch_price_data"] > 0) =>
        /\ IF prices = None
           THEN raised = "ValueError" /\ pc = "data_end"
           ELSE /\ raised = "none"
                /\ Len(prices[1].rows) >= 1
                /\ \A r \in 1..Len(prices[1].rows) : \A t \in SeqRange(tickers) :
                      \E c \in 1..Len(prices[1].columns) :
                          /\ prices[1].columns[c] = t
                          /\ Len(prices[1].rows[r]) = Len(prices[1].columns)
                          /\ ~IsNaN(prices[1].rows[r][c])
        /\ (\A r \in 1..Len(provider) : \E t \in SeqRange(tickers) : ~HasPrice(r, t))
              => prices = None

\* a table is returned although a day of the history lacks a price
C12_Witness ==
    /\ mode = "data" /\ prices # None
    /\ Cardinality(SeqRange(tickers)) = 2
    /\ \E r \in 1..Len(provider) : \E t \in SeqRange(tickers) : ~HasPrice(r, t)
    /\ Len(prices[1].rows) < Len(provider)

\* C13: the dashboard reaches calculate_annual_metrics and optimize_portfolio
\* only with a return table of at least 2 rows; a shorter history ends the
\* run with an error and no optimal portfolios are computed or displayed.
C13_EnoughHistory ==
    mode = "app" =>
        /\ (calls["calculate_annual_metrics"] > 0 \/ calls["optimize_portfolio"] > 0)
              => (returns # None /\ Len(returns[1].rows) >= 2)
        /\ (prices # None /\ Len(prices[1].rows) < 3)
              => (optimal_portfolios = None /\ shown # "success")

\* the metrics of the weight vector w under the run's statistics
MetricsOf(w) ==
    calculate_portfolio_metrics(w, annual_returns, cov_matrix, risk_free_rate)

\* the rows request r would hold had it run alone from the same generator
\* state: its row j comes from the (j+1)-th vector of the sequence
AloneWeights(j) == generate_random_weights(tape[j + 1])

ConcDone == mode = "conc" /\ \A r \in Requests : requests[r].i = n_simulations

\* C14: when two requests run concurrently with their draws interleaved in
\* any order, each ends with the cloud it would have produced alone.
C14_Isolated ==
    ConcDone =>
        \A r \in Requests : \A j \in ArrayIndices(n_simulations) :
            LET m == MetricsOf(AloneWeights(j))
            IN  /\ requests[r].all_weights[j] = AloneWeights(j)
                /\ requests[r].all_returns[j] = m.ret
                /\ requests[r].all_volatilities[j] = m.vol
                /\ requests[r].all_sharpe[j] = m.sharpe

\* the k-th smallest position of a set of positions
KthOf(S, k) == CHOOSE j \in S : Cardinality({h \in S : h <= j}) = k

\* the entries of tickers at the positions S, trimmed and upper-cased, in
\* input order
Entries(S) == [k \in 1..Cardinality(S) |-> StripUpper[tickers[KthOf(S, k)]]]

NonBlank == { j \in 1..Len(tickers) : StripUpper[tickers[j]] # "" }

\* C15: validate_tickers returns, in input order and with multiplicity, the
\* non-blank entries whose lookup returned data as valid and all other
\* non-blank entries (empty lookup or lookup that raised) as invalid; blank
\* entries are in neither list and no lookup failure ends the call.
C15_Partition ==
    (mode = "data" /\ calls["validate_tickers"] > 0) =>
        /\ raised = "none"
        /\ valid_tickers = Entries({ j \in NonBlank : lookups[j] = "data" })
        /\ invalid_tickers = Entries({ j \in NonBlank : lookups[j] # "data" })
        /\ Len(valid_tickers) + Len(invalid_tickers) = Cardinality(NonBlank)

\* a lookup raises and a later entry is still classified as valid
C15_Witness ==
    /\ mode = "data" /\ calls["validate_tickers"] > 0
    /\ \E j, h \in NonBlank : j < h /\ lookups[j] = "raise" /\ lookups[h] = "data"
    /\ Len(valid_tickers) = 1 /\ Len(invalid_tickers) = 1

\* the three metric arrays hold at index j the metrics of all_weights[j]
RowMatches(j) ==
    MetricsOf(all_weights[j]) =
        [ret |-> all_returns[j], vol |-> all_volatilities[j],
         sharpe |-> all_sharpe[j]]

\* index j still holds the zeros of np.zeros
RowUnwritten(j) ==
    /\ all_returns[j] = Zero /\ all_volatilities[j] = RZero
    /\ all_sharpe[j] = RZero
    /\ \A a \in 1..n_assets : all_weights[j][a] = Zero

C16_Rows ==
    /\ DOMAIN all_returns = DOMAIN all_weights
    /\ DOMAIN all_volatilities = DOMAIN all_weights
    /\ DOMAIN all_sharpe = DOMAIN all_weights
    /\ \A j \in DOMAIN all_weights :
          IF j < i THEN RowMatches(j) ELSE RowUnwritten(j)
    /\ simulation_results # None =>
          /\ i = n_simulations
          /\ DOMAIN Cloud.all_weights = 0..(n_simulations - 1)
          /\ Cloud = [returns       |-> all_returns,
                      volatilities  |-> all_volatilities,
                      sharpe_ratios |-> all_sharpe,
                      all_weights   |-> all_weights]

\* a step that changes the arrays once they are allocated writes index i
\* only, and moves i to the next index
C16_OneWrite ==
    (pc = "sim_loop" /\ pc' = "sim_loop") =>
        /\ i' = i + 1
        /\ \A j \in DOMAIN all_weights : j # i =>
              /\ all_returns'[j] = all_returns[j]
              /\ all_volatilities'[j] = all_volatilities[j]
              /\ all_sharpe'[j] = all_sharpe[j]
              /\ all_weights'[j] = all_weights[j]

\* C16: at every index of the cloud the return, volatility and Sharpe
\* ratio are the metrics calculate_portfolio_metrics gives for the weight
\* vector stored at that index, and each index is written exactly once
\* (indices below i are written, the others are not, and an iteration
\* writes index i only).
C16_AlignedRows == []C16_Rows /\ [][C16_OneWrite]_vars

C16_Witness ==
    /\ simulation_results # None /\ n_simulations = 2 /\ n_assets = 2
    /\ Cloud.all_weights[0] # Cloud.all_weights[1]
    /\ Cloud.returns[0] # Cloud.returns[1]

ZeroVolatility(v) == v.k = "fin" /\ v.sg = 0

\* C17: a drawn candidate of volatility 0 raises nothing: the loop goes on,
\* the cloud that is returned has n_simulations entries, and the candidate
\* carries a non-finite Sharpe ratio (+inf, -inf or NaN).
C17_ZeroVolatilityKept ==
    \A j \in DOMAIN all_volatilities :
        (j < i /\ ZeroVolatility(all_volatilities[j])) =>
            /\ ~IsFinite(all_sharpe[j])
            /\ raised = "none"
            /\ pc \in {"sim_loop", "select", "returned", "app_end"}
            /\ pc = "sim_loop" => (SimDrawEnabled \/ i = n_simulations)
            /\ simulation_results # None =>
                  /\ Size(Cloud.sharpe_ratios) = n_simulations
                  /\ ZeroVolatility(Cloud.volatilities[j])
                  /\ ~IsFinite(Cloud.sharpe_ratios[j])

\* the first candidate has volatility 0 and a later one was still drawn
C17_Witness ==
    /\ simulation_results # None /\ n_simulations = 2
    /\ ZeroVolatility(Cloud.volatilities[0])
    /\ ~ZeroVolatility(Cloud.volatilities[1])
    /\ IsFinite(Cloud.sharpe_ratios[1])

\* a step that calls calculate_portfolio_metrics leaves the statistics and
\* the risk-free rate as they were, stores the weights as they were
\* generated, and consumes only the n_assets draws of generate_random_weights
C18_Frame ==
    (metrics_calls' = metrics_calls + 1) =>
        /\ annual_returns' = annual_returns
        /\ cov_matrix' = cov_matrix
        /\ risk_free_rate' = risk_free_rate
        /\ rng_pos' = rng_pos + n_assets
        /\ \E draws \in [1..n_assets -> 0..MaxDraw] :
              all_weights'[i] = generate_random_weights(draws)

\* two calls of the same run on equal weights returned equal triples
C18_EqualCalls ==
    \A j, h \in DOMAIN all_weights :
        (j < i /\ h < i /\ all_weights[j] = all_weights[h]) =>
            /\ all_returns[j] = all_returns[h]
            /\ all_volatilities[j] = all_volatilities[h]
            /\ all_sharpe[j] = all_sharpe[h]

\* C18: calculate_portfolio_metrics is pure: a call leaves weights,
\* annual_returns, cov_matrix and the random source unchanged, and calls
\* with equal arguments return equal triples.
C18_Pure == []C18_EqualCalls /\ [][C18_Frame]_vars

C18_Witness ==
    /\ metrics_calls = 2 /\ i = 2 /\ n_assets = 2
    /\ all_weights[0] = all_weights[1]
    /\ IsFinite(all_sharpe[0])

\* w' S w as the double sum over all pairs of assets
QuadraticForm(w, S) ==
    LET n == Len(w)
    IN  SumTo([p \in 1..(n * n) |->
                  LET a == ((p - 1) \div n) + 1
                      b == ((p - 1) % n) + 1
                  IN  FMul(FMul(w[a], S[a][b]), w[b])], n * n)

FiniteVector(w) == \A a \in 1..Len(w) : IsFinite(w[a])

FiniteCov == \A a, b \in 1..Len(cov_matrix) : IsFinite(cov_matrix[a][b])

\* C19: for finite weights and a finite symmetric positive semi-definite
\* covariance matrix the stored volatility is the non-negative square root
\* of the full quadratic form w' S w, off-diagonal terms included, and it is
\* 0 only when w' S w = 0.
C19_Volatility ==
    FiniteCov =>
        \A j \in DOMAIN all_weights :
            (j < i /\ FiniteVector(all_weights[j])) =>
                \A q \in {QuadraticForm(all_weights[j], cov_matrix)} :
                LET v == all_volatilities[j]
                IN  /\ IsFinite(q) /\ q.n >= 0
                    /\ IsFinite(v) /\ v.sg >= 0
                    /\ v.sg = 0 <=> IsZero(q)
                    /\ v.sg = 1 => Fin(v.n, v.d) = q

\* two anti-correlated assets whose variances cancel in the quadratic form
C19_Witness ==
    /\ i >= 1 /\ n_assets = 2 /\ FiniteCov
    /\ cov_matrix[1][2].n < 0
    /\ FiniteVector(all_weights[0])
    /\ ZeroVolatility(all_volatilities[0])

RECURSIVE Pow2(_)
Pow2(e) == IF e = 0 THEN 1 ELSE 2 * Pow2(e - 1)

\* x is ln(p / q) in units of ln 2: p = q * 2^x
IsLogRatio(x, p, q) ==
    /\ IsFinite(x) /\ x.d = 1
    /\ IF x.n >= 0 THEN FMul(q, Fin(Pow2(x.n), 1)) = p
       ELSE FMul(p, Fin(Pow2(-x.n), 1)) = q

\* C20: on a cleaned price table of n >= 1 rows calculate_returns returns
\* n - 1 rows with the columns of the price table in the same order; its
\* row t holds, per asset, the logarithm of the price of row t + 1 of the
\* price table over the price of row t.
C20_LogReturns ==
    (mode = "data" /\ returns # None) =>
        LET p == prices[1]
            r == returns[1]
        IN  /\ Len(p.rows) >= 1
            /\ \A t \in 1..Len(p.rows) : \A c \in 1..Len(p.columns) :
                  IsFinite(p.rows[t][c]) /\ p.rows[t][c].n > 0
            /\ Len(r.rows) = Len(p.rows) - 1
            /\ r.columns = p.columns
            /\ \A t \in 1..Len(r.rows) :
                  /\ Len(r.rows[t]) = Len(p.columns)
                  /\ \A c \in 1..Len(p.columns) :
                        IsLogRatio(r.rows[t][c], p.rows[t + 1][c], p.rows[t][c])

\* three price rows, two assets, a price that moves
C20_Witness ==
    /\ mode = "data" /\ returns # None
    /\ Len(prices[1].rows) = 3 /\ Len(prices[1].columns) = 2
    /\ Len(returns[1].rows) = 2
    /\ returns[1].rows[1][1] # Zero
    /\ returns[1].rows[2][2] # returns[1].rows[1][2]

\* a stage of the run has failed: its exception is in flight or was caught
Failed == raised # "none"

\* after a failure no stage is invoked, the error box is not replaced, and
\* the exception is not cleared
C21_AfterFailure ==
    Failed =>
        /\ calls' = calls
        /\ raised' = raised
        /\ shown # "none" => shown' = shown
        /\ UNCHANGED << prices, returns, annual_returns, cov_matrix,
                        simulation_results, optimal_portfolios >>

\* a failed run called each stage at most once, holds no result the failed
\* stage would have produced, and ends with the error box
C21_FailedRun ==
    (Failed /\ mode \in {"app", "api"}) =>
        /\ \A s \in Stages : calls[s] <= 1
        /\ optimal_portfolios = None
        /\ shown \in {"none", "system_error"}
        /\ mode = "app" =>
              /\ pc \in {"app_except", "raised", "app_end"}
              /\ pc = "app_end" => shown = "system_error"
              /\ calls["fetch_price_data"] = 1 /\ prices = None =>
                    /\ \A s \in Stages \ {"validate_tickers", "fetch_price_data"} :
                          calls[s] = 0
                    /\ returns = None /\ annual_returns = <<>>
                    /\ cov_matrix = <<>> /\ simulation_results = None
        /\ mode = "api" => pc = "raised"

\* C21: within one run, once validate_tickers, fetch_price_data,
\* calculate_returns, calculate_annual_metrics or optimize_portfolio has
\* failed, none of them is invoked again; the failure is shown once as an
\* error and no data is substituted for the missing result.
C21_NoRetry == []C21_FailedRun /\ [][C21_AfterFailure]_vars

\* the fetch failed and the run ended with the error box
C21_Witness ==
    /\ mode = "app" /\ pc = "app_end"
    /\ raised = "ValueError" /\ shown = "system_error"
    /\ calls["fetch_price_data"] = 1 /\ prices = None

\* the sum of the values of a weight mapping
RECURSIVE SumOver(_, _)
SumOver(f, S) ==
    IF S = {} THEN Zero
    ELSE LET t == CHOOSE x \in S : TRUE
         IN  FAdd(f[t], SumOver(f, S \ {t}))

\* C22: each optimal portfolio's named weight mapping has one entry per
\* position of the selected weight vector, n_assets entries in all, and the
\* mapped weights sum to what the vector sums to (1 for a vector on the
\* simplex), whatever tickers list was passed.
C22_OneEntryPerAsset ==
    HasResult =>
        \A name \in PortfolioNames :
            LET w == Cloud.all_weights[SelectedIdx(name)]
                named == Res[name].weights
            IN  /\ Cardinality(DOMAIN named) = n_assets
                /\ VecSum(w) = Fin(1, 1) => SumOver(named, DOMAIN named) = Fin(1, 1)

\* the cloud, once returned by the simulation, is never changed, and no
\* draw is made after it
C23_CloudFrame ==
    simulation_results # None =>
        /\ simulation_results' = simulation_results
        /\ UNCHANGED << all_returns, all_volatilities, all_sharpe, all_weights,
                        rng_pos, gen_calls, metrics_calls >>

\* the returned cloud is the one the single simulation run filled, and both
\* optimal portfolios are read from it at the selected indices
C23_SelectedFromReturned ==
    HasResult =>
        /\ simulation_results # None
        /\ Cloud = [returns       |-> all_returns,
                    volatilities  |-> all_volatilities,
                    sharpe_ratios |-> all_sharpe,
                    all_weights   |-> all_weights]
        /\ Size(Cloud.returns) = n_simulations
        /\ gen_calls = n_simulations /\ metrics_calls = n_simulations
        /\ rng_pos = n_simulations * n_assets
        /\ max_sharpe_idx = ArgMax(Cloud.sharpe_ratios)
        /\ min_vol_idx = ArgMin(Cloud.volatilities)
        /\ \A name \in PortfolioNames :
              /\ Res[name].return = Cloud.returns[SelectedIdx(name)]
              /\ Res[name].volatility = Cloud.volatilities[SelectedIdx(name)]
              /\ Res[name].sharpe = Cloud.sharpe_ratios[SelectedIdx(name)]

\* C23: find_optimal_portfolios leaves the four arrays of the cloud as they
\* were, and the cloud optimize_portfolio returns is the cloud of its single
\* simulation run, from which max_sharpe and min_volatility were selected.
C23_SameCloud == []C23_SelectedFromReturned /\ [][C23_CloudFrame]_vars

\* a selection from a cloud that holds a NaN Sharpe ratio and a finite one
C23_Witness ==
    /\ HasResult /\ n_simulations = 2 /\ n_assets = 2
    /\ \E j \in DOMAIN Cloud.sharpe_ratios : IsNaN(Cloud.sharpe_ratios[j])
    /\ \E j \in DOMAIN Cloud.sharpe_ratios : IsFinite(Cloud.sharpe_ratios[j])

====
